---- MODULE Spec2Model ----
(***************************************************************************)
(* Bulletproof memory access (bulletproof-rs).                             *)
(*                                                                         *)
(* The Rust layer (src/src/lib.rs) is a zero-sized handle, Bulletproof,    *)
(* whose constructor registers a SIGSEGV handler and whose four methods    *)
(* map the return code of a native guarded-touch primitive to a Result.    *)
(* The native primitives (bulletproof_register, bulletproof_load, ...) are *)
(* only declared in lib.rs; their behaviour is modelled from the           *)
(* specification's description of the fault interceptor (save point, raw   *)
(* copy, trap handler resuming at the save point).                         *)
(*                                                                         *)
(* Memory is a byte array split in pages of one word each.  A usize is     *)
(* WordSize bytes and is represented by its object representation, the     *)
(* tuple of its bytes.  Sizes are scaled down: WordSize stands for         *)
(* size_of::<usize>() and AggWords for the 32 of [usize; 32].              *)
(***************************************************************************)
EXTENDS Integers, Sequences, FiniteSets, TLC

\* size_of::<usize>(), scaled down
WordSize == 2
\* number of words of the aggregate [usize; N] used with load<T>/store<T>
AggWords == 2
\* at most this many live handles per thread
MaxHandles == 2
\* the count of recovered faults saturates here
MaxFaults == 2

Bytes == {0, 1}
Threads == {"t1", "t2"}
MainThread == "t1"
Pages == {0, 1, 2}
PageSize == WordSize
MemSize == Cardinality(Pages) * PageSize
Addrs == 0 .. (MemSize - 1)
\* ptr::null()
null == 0
\* a byte of a local that mem::uninitialized() left unwritten
Uninit == 0 - 1

VARIABLES
    handler,    \* process-wide SIGSEGV disposition: "default" or "installed"
    perm,       \* page -> "none" | "ro" | "rw": the address space, fixed
    mem,        \* address -> byte
    live,       \* thread -> number of live handles it holds; a handle is
                \* named by its age rank, 1 the oldest
    pc,         \* thread -> "idle" | "touch" | "resumed" | "done" |
                \*           "panicked" | "killed"
    call,       \* thread -> the guarded call in flight or just completed
    savept,     \* save point slot -> "none" or the thread whose context it holds
    copied,     \* thread -> byte indices the raw copy has transferred
    buf,        \* thread -> the `result` local of load/load_usize
    result,     \* thread -> what the guarded call returned
    faults,     \* recovered faults so far (saturating at MaxFaults)
    regFailed,  \* thread -> bulletproof_register() returned nonzero here
    innerDropped, \* a handle was dropped while an older one stayed live
    lastStore   \* the last successful store_usize not overwritten since

vars == <<handler, perm, mem, live, pc, call, savept, copied, buf, result,
          faults, regFailed, innerDropped, lastStore>>

----------------------------------------------------------------------------
\* Address space

PageOf(a) == a \div PageSize
Readable(a) == a \in Addrs /\ perm[PageOf(a)] \in {"ro", "rw"}
Writable(a) == a \in Addrs /\ perm[PageOf(a)] = "rw"
Range(loc, size) == loc .. (loc + size - 1)
\* the bytes of memory m at [loc, loc+size), as a tuple; past the end of the
\* modelled address space there is nothing to read
BytesAt(m, loc, size) ==
    [i \in 1 .. size |-> IF loc + i - 1 \in Addrs THEN m[loc + i - 1] ELSE 0]
Min(a, b) == IF a < b THEN a ELSE b

LoadOps == {"load_usize", "load"}
StoreOps == {"store_usize", "store"}
WordOps == {"load_usize", "store_usize"}
ByteOps == {"load", "store"}

\* whether the access the call makes to address a is permitted
Permitted(op, a) == IF op \in LoadOps THEN Readable(a) ELSE Writable(a)

----------------------------------------------------------------------------
\* The Rust layer

OkOf(v) == [tag |-> "Ok", val |-> v]
ErrUnit == [tag |-> "Err", val |-> <<>>]
NoResult == [tag |-> "none", val |-> <<>>]

\* new() without the assertion on bulletproof_register()'s return code
new_noassert(rc) == "Self"
\* new() with the assertion inverted (assert_ne!)
new_inverted(rc) == IF rc = 0 THEN "panic" ELSE "Self"

\* Bulletproof::new(): assert_eq!(bulletproof_register(), 0); Self {}
new(rc) == IF rc = 0 THEN "Self" ELSE "panic"

\* a Drop impl that restored the default disposition
drop_uninstalls(d) == "default"

\* Bulletproof is Copy and has no Drop impl: a handle going out of scope
\* leaves the signal disposition d as it is.
drop(d) == d

\* load_usize ignoring the primitive's return code
load_usize_unchecked(ret, res) == OkOf(res)
\* load_usize with the test on the return code inverted
load_usize_inverted(ret, res) == IF ret = 0 THEN ErrUnit ELSE OkOf(res)

\* load_usize: Err(()) when bulletproof_load() != 0, else Ok(result)
load_usize(ret, res) == IF ret # 0 THEN ErrUnit ELSE OkOf(res)

\* load<T> ignoring the primitive's return code
load_unchecked(ret, res) == OkOf(res)
\* load<T> with the test on the return code inverted
load_inverted(ret, res) == IF ret = 0 THEN ErrUnit ELSE OkOf(res)

\* load<T>: Err(()) when bulletproof_load_bytes() != 0, else Ok(result)
load(ret, res) == IF ret # 0 THEN ErrUnit ELSE OkOf(res)

\* store_usize ignoring the primitive's return code
store_usize_unchecked(ret) == OkOf(<<>>)

\* store_usize: Err(()) when bulletproof_store() != 0, else Ok(())
store_usize(ret) == IF ret # 0 THEN ErrUnit ELSE OkOf(<<>>)

\* store<T> ignoring the primitive's return code
store_unchecked(ret) == OkOf(<<>>)
\* store<T> with the test on the return code inverted
store_inverted(ret) == IF ret = 0 THEN ErrUnit ELSE OkOf(<<>>)

\* store<T>: Err(()) when bulletproof_store_bytes() != 0, else Ok(())
store(ret) == IF ret # 0 THEN ErrUnit ELSE OkOf(<<>>)

\* mem::size_of::<T>() for the types used: u8 and [usize; AggWords]
SizeOfU8 == Cardinality({0})
SizeOfAgg == AggWords * WordSize
\* pointers are aligned for their type
WordLocs == {a \in Addrs : a % WordSize = 0}
WordValues == [1 .. WordSize -> Bytes]
U8Values == [1 .. SizeOfU8 -> Bytes]
AggValues == {[i \in 1 .. SizeOfAgg |-> 0], [i \in 1 .. SizeOfAgg |-> 1],
              [i \in 1 .. SizeOfAgg |-> i % 2]}

\* what a caller passes: every aligned address, every word
AllInputs == [wordLocs |-> WordLocs, wordVals |-> WordValues,
              u8Locs |-> Addrs, u8Vals |-> U8Values,
              aggLocs |-> WordLocs, aggVals |-> AggValues]
\* two threads probing the null page and the one mapped page
SharedInputs == [wordLocs |-> {null, PageSize},
                 wordVals |-> {[i \in 1 .. WordSize |-> 0],
                               [i \in 1 .. WordSize |-> 1]},
                 u8Locs |-> {PageSize}, u8Vals |-> {[i \in 1 .. SizeOfU8 |-> 1]},
                 aggLocs |-> {PageSize},
                 aggVals |-> {[i \in 1 .. SizeOfAgg |-> 1]}]

NoCall == [op |-> "none", h |-> 0, loc |-> 0, size |-> 0, src |-> <<>>,
           mem0 |-> <<>>, dirty |-> FALSE]
NoStore == [loc |-> 0 - 1, val |-> <<>>]

----------------------------------------------------------------------------
InitCommon ==
    /\ call = [t \in Threads |-> NoCall]
    /\ savept = [t \in Threads |-> "none"]
    /\ copied = [t \in Threads |-> {}]
    /\ buf = [t \in Threads |-> <<>>]
    /\ result = [t \in Threads |-> NoResult]
    /\ pc = [t \in Threads |-> "idle"]
    /\ faults = 0
    /\ regFailed = [t \in Threads |-> FALSE]
    /\ innerDropped = FALSE
    /\ lastStore = NoStore

\* the process before any handle exists; page 0 holds null and is unmapped
Init ==
    /\ handler = "default"
    /\ perm \in {p \in [Pages -> {"none", "ro", "rw"}] :
                    p[0] = "none" /\ p[1] = "rw"}
    /\ mem \in {m \in [Addrs -> Bytes] :
                  \A a \in Addrs : perm[PageOf(a)] = "none" => m[a] = 0}
    /\ live = [t \in Threads |-> 0]
    /\ InitCommon

\* two threads that have each created their handle
InitMT ==
    /\ handler = "installed"
    /\ perm = [p \in Pages |-> IF p = 1 THEN "rw" ELSE "none"]
    /\ mem = [a \in Addrs |-> 0]
    /\ live = [t \in Threads |-> 1]
    /\ InitCommon

----------------------------------------------------------------------------
\* Handles

\* bulletproof_register(): sigaction(SIGSEGV, handler); rc = 0 on success
bulletproof_register(rc, disp) == IF rc = 0 THEN "installed" ELSE disp

\* let h = Bulletproof::new();
New(t) ==
    /\ pc[t] = "idle"
    /\ live[t] < MaxHandles
    /\ \E rc \in {0, 1} :
        /\ handler' = bulletproof_register(rc, handler)
        /\ regFailed' = [regFailed EXCEPT ![t] = @ \/ rc # 0]
        /\ IF new(rc) = "Self"
             THEN /\ live' = [live EXCEPT ![t] = @ + 1]
                  /\ pc' = pc
             ELSE \* the assertion panics; unwinding drops the thread's locals
                  /\ live' = [live EXCEPT ![t] = 0]
                  /\ pc' = [pc EXCEPT ![t] = "panicked"]
    /\ UNCHANGED <<perm, mem, call, savept, copied, buf, result, faults,
                   innerDropped, lastStore>>

\* let h2 = h;  (Copy / Clone)
Copy(t) ==
    /\ pc[t] = "idle"
    /\ live[t] >= 1
    /\ live[t] < MaxHandles
    /\ live' = [live EXCEPT ![t] = @ + 1]
    /\ UNCHANGED <<handler, perm, mem, pc, call, savept, copied, buf, result,
                   faults, regFailed, innerDropped, lastStore>>

\* the handle of age rank k goes out of scope
Drop(t) ==
    /\ pc[t] = "idle"
    /\ \E k \in 1 .. live[t] :
        /\ live' = [live EXCEPT ![t] = @ - 1]
        /\ innerDropped' = (innerDropped \/ k > 1)
    /\ handler' = drop(handler)
    /\ UNCHANGED <<perm, mem, pc, call, savept, copied, buf, result, faults,
                   regFailed, lastStore>>

----------------------------------------------------------------------------
\* Guarded calls: entry (the primitive captures the save point)

\* one save point per thread: a thread saves into, and its fault resumes
\* from, its own slot
SavePointOf(t) == t

Enter(t, h, op, loc, size, src) ==
    /\ pc[t] = "idle"
    /\ h \in 1 .. live[t]
    /\ pc' = [pc EXCEPT ![t] = "touch"]
    /\ call' = [call EXCEPT ![t] = [op |-> op, h |-> h, loc |-> loc,
                                    size |-> size, src |-> src, mem0 |-> mem,
                                    dirty |-> FALSE]]
    /\ savept' = [savept EXCEPT ![SavePointOf(t)] = t]
    /\ copied' = [copied EXCEPT ![t] = {}]
    /\ buf' = [buf EXCEPT ![t] = IF op \in LoadOps
                                   THEN [i \in 1 .. size |-> Uninit]
                                   ELSE <<>>]
    /\ result' = [result EXCEPT ![t] = NoResult]
    /\ UNCHANGED <<handler, perm, mem, live, faults, regFailed, innerDropped,
                   lastStore>>

LoadUsizeCall(t, I) ==
    \E h \in 1 .. live[t], loc \in I.wordLocs :
        Enter(t, h, "load_usize", loc, WordSize, <<>>)

LoadCall(t, I) ==
    \E h \in 1 .. live[t] :
        \/ \E loc \in I.u8Locs : Enter(t, h, "load", loc, SizeOfU8, <<>>)
        \/ \E loc \in I.aggLocs : Enter(t, h, "load", loc, SizeOfAgg, <<>>)

StoreUsizeCall(t, I) ==
    \E h \in 1 .. live[t], loc \in I.wordLocs, val \in I.wordVals :
        Enter(t, h, "store_usize", loc, WordSize, val)

StoreCall(t, I) ==
    \E h \in 1 .. live[t] :
        \/ \E loc \in I.u8Locs, src \in I.u8Vals :
              Enter(t, h, "store", loc, SizeOfU8, src)
        \/ \E loc \in I.aggLocs, src \in I.aggVals :
              Enter(t, h, "store", loc, SizeOfAgg, src)

----------------------------------------------------------------------------
\* The guarded touch

InFlight(t) == pc[t] \in {"touch", "resumed"}

\* a write by thread t lands in the range of another thread's call in flight
MarkDirty(t, written) ==
    [u \in Threads |->
        IF u # t /\ InFlight(u)
           /\ written \cap Range(call[u].loc, call[u].size) # {}
          THEN [call[u] EXCEPT !.dirty = TRUE]
          ELSE call[u]]

\* a write over the word of the remembered store forgets it
Forget(written) ==
    IF written \cap Range(lastStore.loc, WordSize) # {} THEN NoStore
                                                         ELSE lastStore

\* bulletproof_load / bulletproof_store: one word-sized access
WordTouch(t) ==
    /\ pc[t] = "touch"
    /\ call[t].op \in WordOps
    /\ copied[t] = {}
    /\ LET c == call[t]
           rng == Range(c.loc, c.size)
       IN /\ \A a \in rng : Permitted(c.op, a)
          /\ copied' = [copied EXCEPT ![t] = 1 .. c.size]
          /\ IF c.op = "load_usize"
               THEN /\ buf' = [buf EXCEPT ![t] = BytesAt(mem, c.loc, c.size)]
                    /\ UNCHANGED <<mem, call, lastStore>>
               ELSE /\ mem' = [a \in Addrs |->
                                 IF a \in rng THEN c.src[a - c.loc + 1]
                                              ELSE mem[a]]
                    /\ call' = MarkDirty(t, rng)
                    /\ lastStore' = Forget(rng)
                    /\ buf' = buf
    /\ UNCHANGED <<handler, perm, live, pc, savept, result, faults, regFailed,
                   innerDropped>>

\* bulletproof_load_bytes / bulletproof_store_bytes: the raw copy moves one
\* byte; the order in which it moves the bytes is the copy routine's choice
ByteTouch(t) ==
    /\ pc[t] = "touch"
    /\ call[t].op \in ByteOps
    /\ LET c == call[t]
       IN \E i \in (1 .. c.size) \ copied[t] :
            LET a == c.loc + i - 1
            IN /\ Permitted(c.op, a)
               /\ copied' = [copied EXCEPT ![t] = @ \cup {i}]
               /\ IF c.op = "load"
                    THEN /\ buf' = [buf EXCEPT ![t][i] = mem[a]]
                         /\ UNCHANGED <<mem, call, lastStore>>
                    ELSE /\ mem' = [mem EXCEPT ![a] = c.src[i]]
                         /\ call' = MarkDirty(t, {a})
                         /\ lastStore' = Forget({a})
                         /\ buf' = buf
    /\ UNCHANGED <<handler, perm, live, pc, savept, result, faults, regFailed,
                   innerDropped>>

\* the access traps: SIGSEGV is delivered on the faulting thread.  The
\* installed handler jumps to that thread's save point, flagged "resumed from
\* fault"; under the default disposition the process is killed.
Fault(t) ==
    /\ pc[t] = "touch"
    /\ LET c == call[t]
       IN \E i \in (1 .. c.size) \ copied[t] : ~Permitted(c.op, c.loc + i - 1)
    /\ LET target == savept[SavePointOf(t)]
       IN IF handler = "installed" /\ target # "none"
            THEN pc' = [pc EXCEPT ![target] = "resumed"]
            ELSE pc' = [u \in Threads |-> "killed"]
    /\ UNCHANGED <<handler, perm, mem, live, call, savept, copied, buf, result,
                   faults, regFailed, innerDropped, lastStore>>

\* return code of the primitive: 0 when the copy completed, 1 when resumed
RetCode(t) == IF pc[t] = "resumed" THEN 1 ELSE 0

\* the primitive returns and the method maps its code to a Result
Return(t) ==
    /\ \/ pc[t] = "resumed"
       \/ pc[t] = "touch" /\ copied[t] = 1 .. call[t].size
    /\ LET ret == RetCode(t)
           c == call[t]
           res == CASE c.op = "load_usize" -> load_usize(ret, buf[t])
                    [] c.op = "load" -> load(ret, buf[t])
                    [] c.op = "store_usize" -> store_usize(ret)
                    [] OTHER -> store(ret)
       IN /\ result' = [result EXCEPT ![t] = res]
          /\ faults' = IF ret # 0 THEN Min(faults + 1, MaxFaults) ELSE faults
          /\ lastStore' = IF c.op = "store_usize" /\ res.tag = "Ok" /\ ~c.dirty
                            THEN [loc |-> c.loc, val |-> c.src]
                            ELSE lastStore
    /\ pc' = [pc EXCEPT ![t] = "done"]
    /\ savept' = [savept EXCEPT ![SavePointOf(t)] = "none"]
    /\ copied' = [copied EXCEPT ![t] = {}]
    /\ buf' = [buf EXCEPT ![t] = <<>>]
    /\ UNCHANGED <<handler, perm, mem, live, call, regFailed, innerDropped>>

\* the caller has looked at the Result and goes on
Consume(t) ==
    /\ pc[t] = "done"
    /\ pc' = [pc EXCEPT ![t] = "idle"]
    /\ call' = [call EXCEPT ![t] = NoCall]
    /\ result' = [result EXCEPT ![t] = NoResult]
    /\ UNCHANGED <<handler, perm, mem, live, savept, copied, buf, faults,
                   regFailed, innerDropped, lastStore>>

----------------------------------------------------------------------------
\* one thread: handles are created, copied and dropped, any address is probed
Next ==
    \/ New(MainThread)
    \/ Copy(MainThread)
    \/ Drop(MainThread)
    \/ LoadUsizeCall(MainThread, AllInputs)
    \/ LoadCall(MainThread, AllInputs)
    \/ StoreUsizeCall(MainThread, AllInputs)
    \/ StoreCall(MainThread, AllInputs)
    \/ WordTouch(MainThread)
    \/ ByteTouch(MainThread)
    \/ Fault(MainThread)
    \/ Return(MainThread)
    \/ Consume(MainThread)

Spec == Init /\ [][Next]_vars

\* two threads, each with its handle, interleaved at every step
NextMT ==
    \E t \in Threads :
        \/ LoadUsizeCall(t, SharedInputs)
        \/ LoadCall(t, SharedInputs)
        \/ StoreUsizeCall(t, SharedInputs)
        \/ StoreCall(t, SharedInputs)
        \/ WordTouch(t)
        \/ ByteTouch(t)
        \/ Fault(t)
        \/ Return(t)
        \/ Consume(t)

SpecMT == InitMT /\ [][NextMT]_vars

----------------------------------------------------------------------------
\* Properties

Done(t) == pc[t] = "done"
AllPermitted(c) == \A a \in Range(c.loc, c.size) : Permitted(c.op, a)
AllReadable(c) == \A a \in Range(c.loc, c.size) : Readable(a)
SomeUnreadable(c) == \E a \in Range(c.loc, c.size) : ~Readable(a)
NeverKilled == \A t \in Threads : pc[t] # "killed"
\* the memory contents of the call's range when the call was made
Contents(c) == BytesAt(c.mem0, c.loc, c.size)
\* what the call returns by the accessibility and contents of its range alone
Expected(c) ==
    IF ~AllPermitted(c) THEN ErrUnit
    ELSE IF c.op \in LoadOps THEN OkOf(Contents(c)) ELSE OkOf(<<>>)

\* C1: a load<T> or load_usize of a range that is accessible as a whole
\* returns Ok(v), v being the contents of the range at the time of the call.
C1_LoadReturnsContents ==
    \A t \in Threads :
        (Done(t) /\ call[t].op \in LoadOps /\ AllReadable(call[t]))
            => result[t] = OkOf(Contents(call[t]))

C1_Witness ==
    \E t \in Threads :
        /\ Done(t)
        /\ call[t].op = "load"
        /\ call[t].size = SizeOfAgg
        /\ result[t].tag = "Ok"
        /\ result[t].val = Contents(call[t])
        /\ \E i, j \in 1 .. SizeOfAgg : result[t].val[i] # result[t].val[j]

\* C2: each of the four operations called on an inaccessible (null or
\* unmapped) address returns Err(()), and the fault never kills the process.
C2_InaccessibleIsErr ==
    /\ NeverKilled
    /\ \A t \in Threads :
        (Done(t) /\ ~Readable(call[t].loc)) => result[t] = ErrUnit

C2_Witness ==
    \E t \in Threads :
        /\ Done(t)
        /\ call[t].op = "store_usize"
        /\ call[t].loc # null
        /\ ~Readable(call[t].loc)
        /\ result[t] = ErrUnit

\* C3: store_usize(a, x) on a writable address returns Ok(()); as long as
\* nothing writes to a afterwards, a plain read of a yields x and
\* load_usize(a) returns Ok(x).
C3_RoundTrip ==
    /\ lastStore # NoStore
         => BytesAt(mem, lastStore.loc, WordSize) = lastStore.val
    /\ \A t \in Threads :
        /\ (Done(t) /\ call[t].op = "store_usize" /\ AllPermitted(call[t]))
              => result[t] = OkOf(<<>>)
        /\ (Done(t) /\ call[t].op = "load_usize"
                /\ call[t].loc = lastStore.loc)
              => result[t] = OkOf(lastStore.val)

C3_Witness ==
    \E t \in Threads :
        /\ Done(t)
        /\ call[t].op = "load_usize"
        /\ call[t].loc = lastStore.loc
        /\ result[t] = OkOf(lastStore.val)
        /\ lastStore.val[1] # lastStore.val[WordSize]

C5_PartialLoadIsErr ==
    \A t \in Threads :
        /\ (Done(t) /\ call[t].op = "load" /\ Readable(call[t].loc)
                /\ SomeUnreadable(call[t]))
              => result[t] = ErrUnit
        /\ (pc[t] = "resumed" /\ call[t].op = "load")
              => \E i \in 1 .. call[t].size : buf[t][i] = Uninit

C5_Witness ==
    \E t \in Threads :
        /\ Done(t)
        /\ call[t].op = "load"
        /\ call[t].size = SizeOfAgg
        /\ Readable(call[t].loc)
        /\ SomeUnreadable(call[t])
        /\ result[t] = ErrUnit

\* C6: after any number of recovered faults the handler is still installed,
\* the process is alive, load_usize(null) returns Err(()) again, and a
\* guarded call on an accessible range returns Ok with the right value.
C6_FailureIsIdempotent ==
    faults >= 1 =>
        /\ handler = "installed"
        /\ NeverKilled
        /\ \A t \in Threads :
            Done(t) =>
                /\ (call[t].op = "load_usize" /\ call[t].loc = null)
                      => result[t] = ErrUnit
                /\ AllPermitted(call[t]) => result[t] = Expected(call[t])

C6_Witness ==
    \E t \in Threads :
        /\ faults = MaxFaults
        /\ faults >= 2
        /\ Done(t)
        /\ call[t].op = "load_usize"
        /\ call[t].loc = null
        /\ result[t] = ErrUnit

C8_Nesting ==
    ((\E t \in Threads : live[t] >= 2) \/ innerDropped) =>
        /\ NeverKilled
        /\ \A t \in Threads : Done(t) => result[t] = Expected(call[t])

C8_Witness ==
    \E t \in Threads :
        /\ innerDropped
        /\ live[t] = 1
        /\ Done(t)
        /\ call[t].h = 1
        /\ call[t].op = "load_usize"
        /\ result[t].tag = "Ok"

\* C9: when bulletproof_register() returns nonzero, new() panics: the
\* thread gets no handle, issues no guarded call, and sees no Err(()).
C9_SetupFailureIsFatal ==
    \A t \in Threads :
        regFailed[t] =>
            /\ pc[t] = "panicked"
            /\ live[t] = 0
            /\ result[t] = NoResult

C9_Witness ==
    \E t \in Threads :
        /\ regFailed[t]
        /\ pc[t] = "panicked"
        /\ handler = "installed"

\* C10: with two threads interleaved, a thread is resumed from a fault only
\* when its own range has an inaccessible byte, its save point holds its own
\* context while its call is in flight and nothing after, each call returns
\* Ok or Err by the accessibility of its own range, and a load that no
\* concurrent store touched returns the contents of its range.
C10_ThreadsIndependent ==
    /\ NeverKilled
    /\ \A t \in Threads :
        /\ pc[t] = "resumed" => ~AllPermitted(call[t])
        /\ savept[t] = IF InFlight(t) THEN t ELSE "none"
        /\ Done(t) =>
            /\ result[t].tag = Expected(call[t]).tag
            /\ (call[t].op \in LoadOps /\ ~call[t].dirty)
                  => result[t] = Expected(call[t])

C10_Witness ==
    \E t, u \in Threads :
        /\ t # u
        /\ pc[t] = "resumed"
        /\ pc[u] = "touch"
        /\ call[u].op = "load_usize"
        /\ copied[u] = 1 .. WordSize
====
